---- MODULE Spec2Model ----
(***************************************************************************)
(* Store management: the domain model (models.py), the SQLite repository   *)
(* (db.py) and the aggregation engine (analysis.py).                       *)
(*                                                                         *)
(* Money is modelled with integers: the prices drawn here are whole        *)
(* numbers, for which Python's float arithmetic is exact.                  *)
(***************************************************************************)
EXTENDS Integers, Sequences, FiniteSets, TLC

\* ------------------------------------------------------------------ bounds
\* AUTOINCREMENT ids handed out per table before the model stops inserting.
MaxProducts == 2
MaxCustomers == 2
MaxOrders == 1
\* Line items of one order (the in-memory list is unbounded in the code).
MaxItems == 2
\* Largest line-item quantity passed to add_item.
MaxQty == 2
\* Largest orders_count a direct increment_customer_orders call may reach.
MaxCount == 1

\* Largest quantity the in-memory Product is driven to.
MaxStock == 3

\* The number of orders _add_test_data stores.
ScenarioOrders == 3

\* Days the clock is advanced past the creation of the database.
MaxDay == 1

\* ------------------------------------------------------------------ inputs
Emails == {"a@x.io", "b@x.io"}
\* Arguments of update_product_quantity (any integer is accepted).
NewQuantities == {-1, 1}
\* Arguments of add_item: the valid ones and two invalid ones.
QtyInputs == (-1) .. MaxQty
\* Arguments of Product(..., quantity=...) and of Product.update_quantity.
StockInputs == (-1) .. MaxStock
DeltaInputs == (-MaxStock - 1) .. MaxStock
\* Order.VALID_STATUSES
VALID_STATUSES == {"pending", "processing", "shipped", "delivered", "cancelled"}
\* Arguments of set_status / update_order_status.
StatusInputs == {"shipped", "bogus"}

ProductIds == 1 .. MaxProducts
CustomerIds == 1 .. MaxCustomers
OrderIds == 1 .. MaxOrders

VARIABLES
    products,      \* table products:    id -> row
    customers,     \* table customers:   id -> row
    orders,        \* table orders:      id -> row
    order_items,   \* table order_items: id -> row
    seq,           \* sqlite_sequence: last AUTOINCREMENT id per table
    order,         \* an in-memory Order object (models.py)
    call,          \* the last operation invoked and its arguments
    ret,           \* what that operation returned
    raised,        \* the exception it let propagate ("" when none)
    freed,         \* emails of customers removed by delete_customer
    self_product,  \* an in-memory Product object (models.py)
    applied,       \* its initial quantity and the sum of the deltas applied to it
    clock          \* the calendar date, in days since the database was created

vars == <<products, customers, orders, order_items, seq, order, call, ret,
          raised, freed, self_product, applied, clock>>

dbvars == <<products, customers, orders, order_items, seq>>
histvars == <<freed>>
memvars == <<order, self_product, applied>>

\* ------------------------------------------------------------- models.py
\* Product.__init__: valid = FALSE stands for the ValueError it raises.
Product(product_id, name, price, description, quantity) ==
    IF price <= 0 \/ quantity < 0
    THEN [valid |-> FALSE, id |-> product_id, name |-> name, price |-> price,
          description |-> description, quantity |-> quantity]
    ELSE [valid |-> TRUE, id |-> product_id, name |-> name, price |-> price,
          description |-> description, quantity |-> quantity]

\* Product.update_quantity without its check: the delta is applied whatever
\* the result.
update_quantity_unchecked(p, delta) ==
    [p |-> [p EXCEPT !.quantity = p.quantity + delta], raised |-> ""]

\* Product.update_quantity: the product after the call and the exception raised.
update_quantity(p, delta) ==
    LET new_quantity == p.quantity + delta
    IN  IF new_quantity < 0
        THEN [p |-> p, raised |-> "ValueError"]
        ELSE [p |-> [p EXCEPT !.quantity = new_quantity], raised |-> ""]

\* Order._calculate_total: sum(product.price * quantity for ...), left to right.
RECURSIVE _calculate_total(_)
_calculate_total(items) ==
    IF items = <<>> THEN 0
    ELSE _calculate_total(SubSeq(items, 1, Len(items) - 1))
         + items[Len(items)].product.price * items[Len(items)].quantity

\* Order.get_items_count
RECURSIVE get_items_count(_)
get_items_count(items) ==
    IF items = <<>> THEN 0
    ELSE get_items_count(SubSeq(items, 1, Len(items) - 1)) + items[Len(items)].quantity

\* Order.__init__
Order(order_id, customer_id, items) ==
    [id |-> order_id, customer_id |-> customer_id, items |-> items,
     status |-> "pending", total_price |-> _calculate_total(items)]

\* Order.add_item that turns away negative quantities only.
add_item_accepts_zero(o, product, quantity) ==
    IF quantity < 0
    THEN [o |-> o, raised |-> "ValueError"]
    ELSE LET items == Append(o.items, [product |-> product, quantity |-> quantity])
         IN  [o |-> [o EXCEPT !.items = items,
                              !.total_price = _calculate_total(items)],
              raised |-> ""]

\* Order.add_item patched incrementally and wrongly: the total is left stale.
add_item_stale(o, product, quantity) ==
    IF quantity <= 0
    THEN [o |-> o, raised |-> "ValueError"]
    ELSE [o |-> [o EXCEPT !.items = Append(@, [product |-> product, quantity |-> quantity])],
          raised |-> ""]

\* Order.add_item: the order after the call and the exception raised.
add_item(o, product, quantity) ==
    IF quantity <= 0
    THEN [o |-> o, raised |-> "ValueError"]
    ELSE LET items == Append(o.items, [product |-> product, quantity |-> quantity])
         IN  [o |-> [o EXCEPT !.items = items,
                              !.total_price = _calculate_total(items)],
              raised |-> ""]

\* The list comprehension of remove_item.
RECURSIVE ItemsWithout(_, _)
ItemsWithout(items, product_id) ==
    IF items = <<>> THEN <<>>
    ELSE IF Head(items).product.id # product_id
         THEN <<Head(items)>> \o ItemsWithout(Tail(items), product_id)
         ELSE ItemsWithout(Tail(items), product_id)

\* list.remove-like: only the first entry for the product goes.
RECURSIVE ItemsWithoutFirst(_, _)
ItemsWithoutFirst(items, product_id) ==
    IF items = <<>> THEN <<>>
    ELSE IF Head(items).product.id # product_id
         THEN <<Head(items)>> \o ItemsWithoutFirst(Tail(items), product_id)
         ELSE Tail(items)

\* Order.remove_item dropping the first matching entry only.
remove_item_first_only(o, product_id) ==
    LET items == ItemsWithoutFirst(o.items, product_id)
    IN  [o EXCEPT !.items = items, !.total_price = _calculate_total(items)]

\* Order.remove_item
remove_item(o, product_id) ==
    LET items == ItemsWithout(o.items, product_id)
    IN  [o EXCEPT !.items = items, !.total_price = _calculate_total(items)]

\* Order.set_status
set_status(o, new_status) ==
    IF new_status \notin VALID_STATUSES
    THEN [o |-> o, raised |-> "ValueError"]
    ELSE [o |-> [o EXCEPT !.status = new_status], raised |-> ""]

\* Product objects a caller can hold: fetched rows or hand-built ones.
MemProducts ==
    { Product(1, "p1", 1, "", 3), Product(2, "p2", 2, "", 0), Product(1, "p1", 2, "", 3) }

\* ------------------------------------------------------------------ db.py
\* sqlite3.Row: the columns of a result row in SELECT order, as <<name, value>>.
\* row[name] returns the value of the FIRST column carrying that name.
RECURSIVE RowGet(_, _)
RowGet(row, name) ==
    IF Head(row)[1] = name THEN Head(row)[2] ELSE RowGet(Tail(row), name)

\* The columns of p.* for a row of table products (created_at is not modelled).
ProductColumns(id, r) ==
    << <<"id", id>>, <<"name", r.name>>, <<"price", r.price>>,
       <<"description", r.description>>, <<"quantity", r.quantity>> >>

\* SELECT p.*, oi.quantity FROM order_items oi JOIN products p ON oi.product_id = p.id
\* WHERE oi.order_id = ?  -- one result row per line item whose product exists,
\* in order_items rowid order.
RECURSIVE JoinRows(_, _, _, _)
JoinRows(prods, items, order_id, k) ==
    IF k > 0 /\ k \notin DOMAIN items /\ \A j \in DOMAIN items : j < k THEN <<>>
    ELSE IF k \in DOMAIN items /\ items[k].order_id = order_id
            /\ items[k].product_id \in DOMAIN prods
         THEN << ProductColumns(items[k].product_id, prods[items[k].product_id])
                 \o << <<"quantity", items[k].quantity>> >> >>
              \o JoinRows(prods, items, order_id, k + 1)
         ELSE JoinRows(prods, items, order_id, k + 1)

\* The loop of get_order that turns the join's rows into (Product, quantity) pairs.
RECURSIVE ItemsOfRows(_)
ItemsOfRows(rows) ==
    IF rows = <<>> THEN <<>>
    ELSE << [product |-> Product(RowGet(Head(rows), "id"), RowGet(Head(rows), "name"),
                                 RowGet(Head(rows), "price"),
                                 RowGet(Head(rows), "description"),
                                 RowGet(Head(rows), "quantity")),
             quantity |-> RowGet(Head(rows), "quantity")] >>
         \o ItemsOfRows(Tail(rows))

\* get_order: the exception it lets out ("" when none) and the list holding the
\* order it returns (empty for None).
get_order(prods, ords, items, order_id) ==
    IF order_id \notin DOMAIN ords THEN [raised |-> "", orders |-> <<>>]
    ELSE LET row == ords[order_id]
             its == ItemsOfRows(JoinRows(prods, items, order_id, 1))
         IN  IF \E i \in 1 .. Len(its) : ~its[i].product.valid
             THEN [raised |-> "ValueError", orders |-> <<>>]
             ELSE [raised |-> "",
                   orders |-> << [id |-> order_id, customer_id |-> row.customer_id,
                                  items |-> its, status |-> row.status,
                                  total_price |-> row.total_price] >>]

\* [get_order(id) for id in order_ids if get_order(id)], ids ascending from k.
RECURSIVE OrdersOfIds(_, _, _, _, _)
OrdersOfIds(prods, ords, items, ids, k) ==
    IF \A i \in ids : i < k THEN [raised |-> "", orders |-> <<>>]
    ELSE IF k \notin ids THEN OrdersOfIds(prods, ords, items, ids, k + 1)
    ELSE LET one == get_order(prods, ords, items, k)
             more == OrdersOfIds(prods, ords, items, ids, k + 1)
         IN  IF one.raised # "" THEN one
             ELSE IF more.raised # "" THEN more
             ELSE [raised |-> "", orders |-> one.orders \o more.orders]

\* get_all_orders
get_all_orders(prods, ords, items) ==
    OrdersOfIds(prods, ords, items, DOMAIN ords, 1)

\* get_customer_orders
get_customer_orders(prods, ords, items, customer_id) ==
    OrdersOfIds(prods, ords, items,
                {i \in DOMAIN ords : ords[i].customer_id = customer_id}, 1)

\* get_product
get_product(prods, product_id) ==
    IF product_id \notin DOMAIN prods THEN <<>>
    ELSE LET row == ProductColumns(product_id, prods[product_id])
         IN  << Product(RowGet(row, "id"), RowGet(row, "name"), RowGet(row, "price"),
                        RowGet(row, "description"), RowGet(row, "quantity")) >>

\* DELETE FROM <table> WHERE id = ?
DeleteById(table, id) == [k \in DOMAIN table \ {id} |-> table[k]]

\* The emails UNIQUE index of table customers.
StoredEmails(custs) == { custs[c].email : c \in DOMAIN custs }

\* What storage can do to an operation: nothing, or raise sqlite3.OperationalError
\* at its first execute(), at its first line-item INSERT, or at its commit().
NoFault == {"none"}
Faults == {"none", "execute", "items", "commit"}

\* increment_customer_orders: its own connection, its own commit. locked: another
\* connection holds an uncommitted write, so the UPDATE waits out the busy
\* timeout, raises "database is locked", and the except clause returns False.
increment_customer_orders(custs, customer_id, locked) ==
    IF locked
    THEN [customers |-> custs, ret |-> FALSE]
    ELSE [customers |-> [c \in DOMAIN custs |->
                           IF c = customer_id
                           THEN [custs[c] EXCEPT !.orders_count = @ + 1] ELSE custs[c]],
          ret |-> customer_id \in DOMAIN custs]

\* The ids of a table in rowid order, which is the order a SELECT without
\* ORDER BY scans it in.
RECURSIVE RowIds(_)
RowIds(ids) ==
    IF ids = {} THEN <<>>
    ELSE LET m == CHOOSE x \in ids : \A y \in ids : x <= y
         IN  <<m>> \o RowIds(ids \ {m})

\* get_all_customers: one Customer per row, orders_count copied from the row.
get_all_customers(custs) ==
    LET ids == RowIds(DOMAIN custs)
    IN  [i \in 1 .. Len(ids) |->
           [id |-> ids[i], name |-> custs[ids[i]].name, email |-> custs[ids[i]].email,
            orders_count |-> custs[ids[i]].orders_count]]

\* ------------------------------------------------------------ analysis.py
\* df.sort_values(by, ascending=False): no kind is passed, so pandas sorts with
\* its default, quicksort, which is not a stable sort. Every arrangement of the
\* rows in non-increasing order of the key is a possible outcome.
sort_values(rows, by) ==
    LET n == Len(rows)
        Descending(q) == \A i, j \in 1 .. n : i < j => rows[q[i]][by] >= rows[q[j]][by]
    IN  { [i \in 1 .. n |-> rows[q[i]]] : q \in {q \in Permutations(1 .. n) : Descending(q)} }

\* df.head(n), n >= 0
head(rows, n) == SubSeq(rows, 1, IF n < Len(rows) THEN n ELSE Len(rows))

\* The DataFrame get_top_customers builds from get_all_customers, one row per
\* customer in list order.
CustomersFrame(custs) ==
    LET cs == get_all_customers(custs)
    IN  [i \in 1 .. Len(cs) |->
           [name |-> cs[i].name, orders |-> cs[i].orders_count, email |-> cs[i].email]]

\* get_top_customers: the DataFrames it can return (the empty one when there is
\* no customer).
get_top_customers(custs, n) ==
    IF get_all_customers(custs) = <<>> THEN {<<>>}
    ELSE { head(df, n) : df \in sort_values(CustomersFrame(custs), "orders") }

\* The (product, quantity) pairs of a list of orders, order by order.
RECURSIVE AllItems(_)
AllItems(os) ==
    IF os = <<>> THEN <<>> ELSE Head(os).items \o AllItems(Tail(os))

\* The two nested loops of get_top_products: product_sales as the list of its
\* values in insertion order, each with the product id that keys it.
RECURSIVE product_sales(_)
product_sales(its) ==
    IF its = <<>> THEN <<>>
    ELSE LET sales == product_sales(SubSeq(its, 1, Len(its) - 1))
             it == its[Len(its)]
             Seen(k) == sales[k].id = it.product.id
         IN  IF \E k \in 1 .. Len(sales) : Seen(k)
             THEN [k \in 1 .. Len(sales) |->
                     IF Seen(k)
                     THEN [sales[k] EXCEPT !.quantity = @ + it.quantity,
                                           !.revenue = @ + it.product.price * it.quantity]
                     ELSE sales[k]]
             ELSE Append(sales, [id |-> it.product.id, name |-> it.product.name,
                                 quantity |-> it.quantity,
                                 revenue |-> it.product.price * it.quantity])

\* The DataFrame get_top_products builds from product_sales.values().
ProductsFrame(sales) ==
    [k \in 1 .. Len(sales) |->
       [name |-> sales[k].name, quantity |-> sales[k].quantity,
        revenue |-> sales[k].revenue]]

\* get_top_products: the exception get_all_orders lets out ("" when none) and
\* the DataFrames it can return (the empty one when there is no order).
get_top_products(prods, ords, items, n) ==
    LET all == get_all_orders(prods, ords, items)
    IN  IF all.raised # "" THEN [raised |-> all.raised, frames |-> {}]
        ELSE IF all.orders = <<>> THEN [raised |-> "", frames |-> {<<>>}]
        ELSE [raised |-> "",
              frames |-> { head(df, n) :
                             df \in sort_values(ProductsFrame(product_sales(AllItems(all.orders))),
                                                "quantity") }]

\* get_all_products: the exception it lets out ("" when none; a stored quantity
\* below 0 makes the Product constructor raise) and the list it returns.
get_all_products(prods) ==
    LET ids == RowIds(DOMAIN prods)
        ps == [i \in 1 .. Len(ids) |-> get_product(prods, ids[i])[1]]
    IN  IF \E i \in 1 .. Len(ps) : ~ps[i].valid
        THEN [raised |-> "ValueError", products |-> <<>>]
        ELSE [raised |-> "", products |-> ps]

\* BaseEntity.__init__ as run by the Order(...) call inside get_order: every
\* object of a list read at date now carries created_at = now. The created_at
\* column of the row is not copied into the object.
Constructed(os, now) ==
    [i \in 1 .. Len(os) |->
       [f \in DOMAIN os[i] \cup {"created_at"} |->
          IF f = "created_at" THEN now ELSE os[i][f]]]

\* The sum of a column over the rows of a DataFrame that carry a given date.
RECURSIVE SumOn(_, _, _)
SumOn(rows, by, date) ==
    IF rows = <<>> THEN 0
    ELSE (IF Head(rows).date = date THEN Head(rows)[by] ELSE 0)
         + SumOn(Tail(rows), by, date)

\* get_sales_by_date called at date now: the exception get_all_orders lets out
\* and the rows of the DataFrame (none when there is no order). groupby leaves
\* one row per date, so the final sort has no ties.
get_sales_by_date(prods, ords, items, now) ==
    LET all == get_all_orders(prods, ords, items)
        os == Constructed(all.orders, now)
        data == [i \in 1 .. Len(os) |->
                   [date |-> os[i].created_at, total |-> os[i].total_price,
                    items |-> get_items_count(os[i].items)]]
        dates == RowIds({ data[i].date : i \in 1 .. Len(data) })
    IN  [raised |-> all.raised,
         rows |-> [k \in 1 .. Len(dates) |->
                     [date |-> dates[k], total |-> SumOn(data, "total", dates[k]),
                      items |-> SumOn(data, "items", dates[k])]]]

\* get_order_status_distribution with every recognised status given a row,
\* absent ones with count 0.
RECURSIVE status_counts_zero_filled(_)
status_counts_zero_filled(os) ==
    IF os = <<>>
    THEN LET names == <<"pending", "processing", "shipped", "delivered", "cancelled">>
         IN  [k \in 1 .. 5 |-> [status |-> names[k], count |-> 0]]
    ELSE LET counts == status_counts_zero_filled(SubSeq(os, 1, Len(os) - 1))
             status == os[Len(os)].status
             Seen(k) == counts[k].status = status
         IN  IF \E k \in 1 .. Len(counts) : Seen(k)
             THEN [k \in 1 .. Len(counts) |->
                     IF Seen(k) THEN [counts[k] EXCEPT !.count = @ + 1] ELSE counts[k]]
             ELSE Append(counts, [status |-> status, count |-> 1])

\* The loop of get_order_status_distribution: status_counts as the list of its
\* items in insertion order.
RECURSIVE status_counts(_)
status_counts(os) ==
    IF os = <<>> THEN <<>>
    ELSE LET counts == status_counts(SubSeq(os, 1, Len(os) - 1))
             status == os[Len(os)].status
             Seen(k) == counts[k].status = status
         IN  IF \E k \in 1 .. Len(counts) : Seen(k)
             THEN [k \in 1 .. Len(counts) |->
                     IF Seen(k) THEN [counts[k] EXCEPT !.count = @ + 1] ELSE counts[k]]
             ELSE Append(counts, [status |-> status, count |-> 1])

\* get_order_status_distribution built on the zero-filled counts.
get_order_status_distribution_zero_filled(prods, ords, items) ==
    LET all == get_all_orders(prods, ords, items)
    IN  [raised |-> all.raised, rows |-> status_counts_zero_filled(all.orders)]

\* get_order_status_distribution: the exception get_all_orders lets out and
\* the rows of the DataFrame (none when there is no order).
get_order_status_distribution(prods, ords, items) ==
    LET all == get_all_orders(prods, ords, items)
    IN  [raised |-> all.raised, rows |-> status_counts(all.orders)]

\* sum(order.total_price for order in orders)
RECURSIVE SumTotals(_)
SumTotals(os) ==
    IF os = <<>> THEN 0 ELSE Head(os).total_price + SumTotals(Tail(os))

\* sum(order.get_items_count() for order in orders)
RECURSIVE SumItemsCounts(_)
SumItemsCounts(os) ==
    IF os = <<>> THEN 0 ELSE get_items_count(Head(os).items) + SumItemsCounts(Tail(os))

\* a / b as the exact quotient; the literal 0 of the else branches is 0 / 1.
Quotient(a, b) == [num |-> a, den |-> b]

\* get_summary_statistics: the exception one of its three reads lets out and
\* the dictionary it returns.
get_summary_statistics(prods, custs, ords, items) ==
    LET ps == get_all_products(prods)
        cs == get_all_customers(custs)
        all == get_all_orders(prods, ords, items)
        total_revenue == SumTotals(all.orders)
        total_items == SumItemsCounts(all.orders)
        n == Len(all.orders)
    IN  IF ps.raised # "" THEN [raised |-> ps.raised, stats |-> <<>>]
        ELSE IF all.raised # "" THEN [raised |-> all.raised, stats |-> <<>>]
        ELSE [raised |-> "",
              stats |-> << [total_products |-> Len(ps.products),
                            total_customers |-> Len(cs),
                            total_orders |-> n,
                            total_revenue |-> total_revenue,
                            avg_order_value |-> IF n # 0 THEN Quotient(total_revenue, n)
                                                ELSE Quotient(0, 1),
                            total_items_sold |-> total_items,
                            avg_items_per_order |-> IF n # 0 THEN Quotient(total_items, n)
                                                    ELSE Quotient(0, 1)] >>]

\* ------------------------------------------------- storage connections
\* What an operation does with connections, in program order: _get_connection()
\* is "open", an INSERT / UPDATE / DELETE is "write", then "commit" and "close".
\* Connections are numbered in the order the operation opens them.
Event(ev, conn) == [ev |-> ev, conn |-> conn]

\* The mutating operations other than add_order: one connection, one write (two
\* DELETEs count as one), commit, close.
OwnConnection ==
    << Event("open", 1), Event("write", 1), Event("commit", 1), Event("close", 1) >>

\* add_order: conn is opened first; after the header INSERT and the line-item
\* INSERTs it calls increment_customer_orders, which opens its own connection,
\* attempts its UPDATE and closes; then conn commits and, in finally, closes.
add_order_connections(o, f) ==
    IF f = "execute" THEN << Event("open", 1), Event("close", 1) >>
    ELSE IF f = "items"
    THEN << Event("open", 1), Event("write", 1), Event("close", 1) >>
    ELSE << Event("open", 1), Event("write", 1) >>
         \o [k \in 1 .. Len(o.items) |-> Event("write", 1)]
         \o << Event("open", 2), Event("write", 2), Event("close", 2) >>
         \o (IF f = "commit" THEN <<>> ELSE << Event("commit", 1) >>)
         \o << Event("close", 1) >>

\* get_all_orders and get_customer_orders over n selected ids: the list
\* comprehension calls get_order twice per id, inside the try whose finally
\* closes conn. get_order opens and closes a connection of its own.
RECURSIVE NestedReads(_)
NestedReads(n) ==
    IF n = 0 THEN <<>>
    ELSE << Event("open", 2), Event("close", 2), Event("open", 2), Event("close", 2) >>
         \o NestedReads(n - 1)

get_all_orders_connections(ids) ==
    << Event("open", 1) >> \o NestedReads(Cardinality(ids)) \o << Event("close", 1) >>

\* The connection events of the operation recorded in a call.
Connections(c) ==
    IF c.op = "add_order" THEN add_order_connections(c.order, c.fault)
    ELSE IF c.op \in {"add_product", "update_product_quantity", "delete_product",
                      "add_customer", "delete_customer", "increment_customer_orders",
                      "update_order_status", "delete_order"}
    THEN OwnConnection
    ELSE <<>>

NoCall == [op |-> "init"]
NoRet == [int |-> 0, bool |-> FALSE, orders |-> <<>>]
EmptyTable == [k \in {} |-> 0]

Init ==
    /\ products = EmptyTable
    /\ customers = EmptyTable
    /\ orders = EmptyTable
    /\ order_items = EmptyTable
    /\ seq = [products |-> 0, customers |-> 0, orders |-> 0, order_items |-> 0]
    /\ order = Order(0, 1, <<>>)
    /\ call = NoCall
    /\ ret = NoRet
    /\ raised = ""
    /\ freed = {}
    /\ self_product = Product(1, "p1", 1, "", 0)
    /\ applied = [q0 |-> 0, sum |-> 0]
    /\ clock = 0

\* ---------------------------------------------- the in-memory Order object
OrderAddItem(product, quantity) ==
    /\ Len(order.items) < MaxItems
    /\ LET r == add_item(order, product, quantity)
       IN  /\ order' = r.o
           /\ raised' = r.raised
    /\ call' = [op |-> "Order.add_item", product |-> product, quantity |-> quantity]
    /\ ret' = NoRet
    /\ UNCHANGED <<clock, dbvars, self_product, applied, histvars>>

OrderRemoveItem(product_id) ==
    /\ order' = remove_item(order, product_id)
    /\ raised' = ""
    /\ call' = [op |-> "Order.remove_item", product_id |-> product_id,
                removed |-> Len(order.items) - Len(order'.items)]
    /\ ret' = NoRet
    /\ UNCHANGED <<clock, dbvars, self_product, applied, histvars>>

OrderSetStatus(new_status) ==
    /\ LET r == set_status(order, new_status)
       IN  /\ order' = r.o
           /\ raised' = r.raised
    /\ call' = [op |-> "Order.set_status", status |-> new_status]
    /\ ret' = NoRet
    /\ UNCHANGED <<clock, dbvars, self_product, applied, histvars>>

NextOrder ==
    \/ \E p \in MemProducts, q \in QtyInputs : OrderAddItem(p, q)
    \/ \E i \in 0 .. 2 : OrderRemoveItem(i)
    \/ \E s \in StatusInputs : OrderSetStatus(s)

SpecOrder == Init /\ [][NextOrder]_vars


\* -------------------------------------------- the in-memory Product object
\* Product(1, "p1", 1.0, quantity=quantity): a fresh object replaces the held one
\* unless the constructor raises.
ProductNew(quantity) ==
    /\ LET p == Product(1, "p1", 1, "", quantity)
       IN  IF p.valid
           THEN /\ self_product' = p
                /\ applied' = [q0 |-> quantity, sum |-> 0]
                /\ raised' = ""
           ELSE /\ UNCHANGED <<self_product, applied>>
                /\ raised' = "ValueError"
    /\ call' = [op |-> "Product", quantity |-> quantity]
    /\ ret' = NoRet
    /\ UNCHANGED <<clock, dbvars, order, histvars>>

ProductUpdateQuantity(delta) ==
    /\ self_product.quantity + delta <= MaxStock
    /\ LET r == update_quantity(self_product, delta)
       IN  /\ self_product' = r.p
           /\ raised' = r.raised
           /\ applied' = IF r.raised = ""
                         THEN [applied EXCEPT !.sum = @ + delta] ELSE applied
    /\ call' = [op |-> "Product.update_quantity", delta |-> delta]
    /\ ret' = NoRet
    /\ UNCHANGED <<clock, dbvars, order, histvars>>

NextProduct ==
    \/ \E q \in StockInputs : ProductNew(q)
    \/ \E d \in DeltaInputs : ProductUpdateQuantity(d)

SpecProduct == Init /\ [][NextProduct]_vars

\* ------------------------------------------------- repository operations
\* Product objects passed to add_product (id 0: not yet persisted).
ProductInputs == { Product(0, "p1", 1, "", 3), Product(0, "p2", 2, "", 0) }

\* The Product object a caller puts in an order for product id i: the one
\* get_product returns, or a hand-built one when the id is not stored.
HeldProduct(i) ==
    IF get_product(products, i) # <<>> /\ get_product(products, i)[1].valid
    THEN get_product(products, i)[1]
    ELSE Product(i, "p1", 1, "", 3)

\* Line items as <<product id, quantity>> lists a caller adds one by one.
ItemInputs ==
    { <<>>, << <<1, 2>> >>, << <<1, 2>>, <<2, 1>> >> }

\* Order(0, customer_id) followed by one add_item per entry.
RECURSIVE BuildOrder(_, _)
BuildOrder(customer_id, entries) ==
    IF entries = <<>> THEN Order(0, customer_id, <<>>)
    ELSE add_item(BuildOrder(customer_id, SubSeq(entries, 1, Len(entries) - 1)),
                  HeldProduct(entries[Len(entries)][1]),
                  entries[Len(entries)][2]).o

\* The id an operation was aimed at, 0 when no such row is stored.
Target(table, id) == IF id \in DOMAIN table THEN id ELSE 0

IntRet(n) == [int |-> n, bool |-> FALSE, orders |-> <<>>]
BoolRet(b) == [int |-> 0, bool |-> b, orders |-> <<>>]

\* add_product whose INSERT leaves the quantity column to its DEFAULT 0.
AddProduct_default_quantity(p, f) ==
    /\ seq.products < MaxProducts
    /\ call' = [op |-> "add_product", product |-> p, fault |-> f]
    /\ raised' = ""
    /\ IF f = "none"
       THEN /\ products' = (seq.products + 1) :>
                              [name |-> p.name, price |-> p.price,
                               description |-> p.description, quantity |-> 0]
                           @@ products
            /\ seq' = [seq EXCEPT !.products = @ + 1]
            /\ ret' = IntRet(seq.products + 1)
       ELSE /\ UNCHANGED <<products, seq>>
            /\ ret' = IntRet(-1)
    /\ UNCHANGED <<clock, customers, orders, order_items, memvars, histvars>>

\* add_product: one INSERT, one commit, cursor.lastrowid returned.
AddProduct(p, f) ==
    /\ seq.products < MaxProducts
    /\ call' = [op |-> "add_product", product |-> p, fault |-> f]
    /\ raised' = ""
    /\ IF f = "none"
       THEN /\ products' = (seq.products + 1) :>
                              [name |-> p.name, price |-> p.price,
                               description |-> p.description, quantity |-> p.quantity]
                           @@ products
            /\ seq' = [seq EXCEPT !.products = @ + 1]
            /\ ret' = IntRet(seq.products + 1)
       ELSE /\ UNCHANGED <<products, seq>>
            /\ ret' = IntRet(-1)
    /\ UNCHANGED <<clock, customers, orders, order_items, memvars, histvars>>

UpdateProductQuantity(product_id, new_quantity, f) ==
    /\ call' = [op |-> "update_product_quantity", id |-> Target(products, product_id), fault |-> f]
    /\ raised' = ""
    /\ IF f = "none"
       THEN /\ products' = [i \in DOMAIN products |->
                              IF i = product_id
                              THEN [products[i] EXCEPT !.quantity = new_quantity]
                              ELSE products[i]]
            /\ ret' = BoolRet(product_id \in DOMAIN products)
       ELSE /\ UNCHANGED products
            /\ ret' = BoolRet(FALSE)
    /\ UNCHANGED <<clock, customers, orders, order_items, seq, memvars, histvars>>

DeleteProduct(product_id, f) ==
    /\ call' = [op |-> "delete_product", id |-> Target(products, product_id), fault |-> f]
    /\ raised' = ""
    /\ IF f = "none"
       THEN /\ products' = DeleteById(products, product_id)
            /\ ret' = BoolRet(product_id \in DOMAIN products)
       ELSE /\ UNCHANGED products
            /\ ret' = BoolRet(FALSE)
    /\ UNCHANGED <<clock, customers, orders, order_items, seq, memvars, histvars>>

\* What add_customer returns from "except sqlite3.IntegrityError" and from
\* "except sqlite3.Error".
IntegrityErrorResult == -1
StorageErrorResult == -1

\* The exception the INSERT or the commit of add_customer raises ("" when none):
\* a failing execute() raises before the UNIQUE index is consulted.
AddCustomerError(custs, email, f) ==
    IF f = "execute" THEN "OperationalError"
    ELSE IF email \in StoredEmails(custs) THEN "IntegrityError"
    ELSE IF f = "commit" THEN "OperationalError"
    ELSE ""

\* add_customer on a table without the UNIQUE constraint on email.
AddCustomer_no_unique(email, f) ==
    /\ seq.customers < MaxCustomers
    /\ raised' = ""
    /\ customers' = (seq.customers + 1) :>
                        [name |-> "n", email |-> email, phone |-> "+79991111111",
                         address |-> "", orders_count |-> 0]
                     @@ customers
    /\ seq' = [seq EXCEPT !.customers = @ + 1]
    /\ ret' = IntRet(seq.customers + 1)
    /\ call' = [op |-> "add_customer", email |-> email, fault |-> f, error |-> ""]
    /\ UNCHANGED <<clock, products, orders, order_items, memvars, freed>>

\* add_customer against a UNIQUE index that still holds the emails of deleted rows.
AddCustomer_remembers_deleted(email, f) ==
    /\ seq.customers < MaxCustomers
    /\ raised' = ""
    /\ IF f = "none" /\ email \notin StoredEmails(customers) \cup freed
       THEN /\ customers' = (seq.customers + 1) :>
                               [name |-> "n", email |-> email, phone |-> "+79991111111",
                                address |-> "", orders_count |-> 0]
                            @@ customers
            /\ seq' = [seq EXCEPT !.customers = @ + 1]
            /\ ret' = IntRet(seq.customers + 1)
            /\ call' = [op |-> "add_customer", email |-> email, fault |-> f,
                        error |-> ""]
       ELSE /\ UNCHANGED <<customers, seq>>
            /\ ret' = IntRet(IntegrityErrorResult)
            /\ call' = [op |-> "add_customer", email |-> email, fault |-> f,
                        error |-> "IntegrityError"]
    /\ UNCHANGED <<clock, products, orders, order_items, memvars, freed>>

\* add_customer on a table whose id is a plain INTEGER PRIMARY KEY: the new
\* rowid is one more than the largest stored one.
AddCustomer_rowid(email, f) ==
    /\ seq.customers < MaxCustomers
    /\ raised' = ""
    /\ LET largest == IF customers = EmptyTable THEN 0
                      ELSE CHOOSE c \in DOMAIN customers : \A d \in DOMAIN customers : d <= c
       IN  IF AddCustomerError(customers, email, f) = ""
           THEN /\ customers' = (largest + 1) :>
                                   [name |-> "n", email |-> email, phone |-> "+79991111111",
                                    address |-> "", orders_count |-> 0]
                                @@ customers
                /\ seq' = [seq EXCEPT !.customers = largest + 1]
                /\ ret' = IntRet(largest + 1)
                /\ call' = [op |-> "add_customer", email |-> email, fault |-> f,
                            error |-> ""]
           ELSE /\ UNCHANGED <<customers, seq>>
                /\ ret' = IntRet(IntegrityErrorResult)
                /\ call' = [op |-> "add_customer", email |-> email, fault |-> f,
                            error |-> AddCustomerError(customers, email, f)]
    /\ UNCHANGED <<clock, products, orders, order_items, memvars, freed>>

\* add_customer: the INSERT, the commit, and the two except clauses.
AddCustomer(email, f) ==
    /\ seq.customers < MaxCustomers
    /\ raised' = ""
    /\ IF AddCustomerError(customers, email, f) = ""
       THEN /\ customers' = (seq.customers + 1) :>
                               [name |-> "n", email |-> email, phone |-> "+79991111111",
                                address |-> "", orders_count |-> 0]
                            @@ customers
            /\ seq' = [seq EXCEPT !.customers = @ + 1]
            /\ ret' = IntRet(seq.customers + 1)
            /\ call' = [op |-> "add_customer", email |-> email, fault |-> f,
                        error |-> ""]
       ELSE /\ UNCHANGED <<customers, seq>>
            /\ ret' = IF AddCustomerError(customers, email, f) = "IntegrityError"
                      THEN IntRet(IntegrityErrorResult)
                      ELSE IntRet(StorageErrorResult)
            /\ call' = [op |-> "add_customer", email |-> email, fault |-> f,
                        error |-> AddCustomerError(customers, email, f)]
    /\ UNCHANGED <<clock, products, orders, order_items, memvars, freed>>

DeleteCustomer(customer_id, f) ==
    /\ call' = [op |-> "delete_customer", id |-> Target(customers, customer_id), fault |-> f]
    /\ raised' = ""
    /\ IF f = "none"
       THEN /\ customers' = DeleteById(customers, customer_id)
            /\ ret' = BoolRet(customer_id \in DOMAIN customers)
            /\ freed' = IF customer_id \in DOMAIN customers
                        THEN freed \cup {customers[customer_id].email} ELSE freed
       ELSE /\ UNCHANGED <<customers, freed>>
            /\ ret' = BoolRet(FALSE)
    /\ UNCHANGED <<clock, products, orders, order_items, seq, memvars>>

\* increment_customer_orders called by a client, no other connection open.
IncrementCustomerOrders(customer_id, f) ==
    /\ customer_id \in DOMAIN customers => customers[customer_id].orders_count < MaxCount
    /\ call' = [op |-> "increment_customer_orders", id |-> Target(customers, customer_id), fault |-> f]
    /\ raised' = ""
    /\ LET r == increment_customer_orders(customers, customer_id, f # "none")
       IN  /\ customers' = r.customers
           /\ ret' = BoolRet(r.ret)
    /\ UNCHANGED <<clock, products, orders, order_items, seq, memvars, freed>>

\* add_order: the INSERTs run on conn and stay uncommitted until conn.commit();
\* increment_customer_orders runs in between on a second connection.
add_order(o, f) ==
    /\ f = "items" => Len(o.items) > 0
    /\ raised' = ""
    /\ call' = [op |-> "add_order", order |-> o, fault |-> f]
    /\ LET order_id == seq.orders + 1
           n == Len(o.items)
           \* created_at is not in the INSERT: it takes its DEFAULT CURRENT_TIMESTAMP
           tx_orders == order_id :> [customer_id |-> o.customer_id, status |-> o.status,
                                     total_price |-> o.total_price,
                                     created_at |-> clock] @@ orders
           tx_items == [k \in DOMAIN order_items
                              \cup (seq.order_items + 1 .. seq.order_items + n) |->
                          IF k \in DOMAIN order_items THEN order_items[k]
                          ELSE [order_id |-> order_id,
                                product_id |-> o.items[k - seq.order_items].product.id,
                                quantity |-> o.items[k - seq.order_items].quantity]]
           \* conn has executed its INSERT and not committed: it holds the write lock
           in_transaction == TRUE
           inc == increment_customer_orders(customers, o.customer_id, in_transaction)
       IN  IF f = "execute" \/ f = "items"
           THEN /\ UNCHANGED <<orders, order_items, seq, customers>>
                /\ ret' = IntRet(-1)
           ELSE IF f = "commit"
           THEN /\ customers' = inc.customers
                /\ UNCHANGED <<orders, order_items, seq>>
                /\ ret' = IntRet(-1)
           ELSE /\ customers' = inc.customers
                /\ orders' = tx_orders
                /\ order_items' = tx_items
                /\ seq' = [seq EXCEPT !.orders = order_id, !.order_items = @ + n]
                /\ ret' = IntRet(order_id)
    /\ UNCHANGED <<clock, products, memvars, freed>>

\* add_order while fewer than MaxOrders order ids have been handed out.
AddOrder(o, f) ==
    /\ seq.orders < MaxOrders
    /\ add_order(o, f)

\* add_order as _add_test_data calls it: up to ScenarioOrders orders, each
\* holding one line item.
PlaceOrder(customer_id) ==
    /\ seq.orders < ScenarioOrders
    /\ add_order(BuildOrder(customer_id, << <<1, 2>> >>), "none")

UpdateOrderStatus(order_id, new_status, f) ==
    /\ call' = [op |-> "update_order_status", id |-> Target(orders, order_id), fault |-> f]
    /\ raised' = ""
    /\ IF f = "none"
       THEN /\ orders' = [i \in DOMAIN orders |->
                            IF i = order_id THEN [orders[i] EXCEPT !.status = new_status]
                            ELSE orders[i]]
            /\ ret' = BoolRet(order_id \in DOMAIN orders)
       ELSE /\ UNCHANGED orders
            /\ ret' = BoolRet(FALSE)
    /\ UNCHANGED <<clock, products, customers, order_items, seq, memvars, histvars>>

\* delete_order without the cascade: only the header row goes.
DeleteOrder_header_only(order_id, f) ==
    /\ call' = [op |-> "delete_order", id |-> Target(orders, order_id),
                owner |-> IF order_id \in DOMAIN orders
                          THEN orders[order_id].customer_id ELSE 0,
                fault |-> f]
    /\ raised' = ""
    /\ IF f = "none"
       THEN /\ orders' = DeleteById(orders, order_id)
            /\ UNCHANGED order_items
            /\ ret' = BoolRet(order_id \in DOMAIN orders)
       ELSE /\ UNCHANGED <<orders, order_items>>
            /\ ret' = BoolRet(FALSE)
    /\ UNCHANGED <<clock, products, customers, seq, memvars, histvars>>

\* delete_order that also takes the order back off its customer's counter.
DeleteOrder_decrements(order_id, f) ==
    /\ call' = [op |-> "delete_order", id |-> Target(orders, order_id),
                owner |-> IF order_id \in DOMAIN orders
                          THEN orders[order_id].customer_id ELSE 0,
                fault |-> f]
    /\ raised' = ""
    /\ IF f = "none"
       THEN /\ order_items' = [k \in {j \in DOMAIN order_items :
                                        order_items[j].order_id # order_id} |->
                                 order_items[k]]
            /\ orders' = DeleteById(orders, order_id)
            /\ customers' = [c \in DOMAIN customers |->
                               IF order_id \in DOMAIN orders
                                  /\ c = orders[order_id].customer_id
                               THEN [customers[c] EXCEPT !.orders_count = @ - 1]
                               ELSE customers[c]]
            /\ ret' = BoolRet(order_id \in DOMAIN orders)
       ELSE /\ UNCHANGED <<orders, order_items, customers>>
            /\ ret' = BoolRet(FALSE)
    /\ UNCHANGED <<clock, products, seq, memvars, histvars>>

\* delete_order: line items first, then the header, one commit.
DeleteOrder(order_id, f) ==
    /\ call' = [op |-> "delete_order", id |-> Target(orders, order_id),
                owner |-> IF order_id \in DOMAIN orders
                          THEN orders[order_id].customer_id ELSE 0,
                fault |-> f]
    /\ raised' = ""
    /\ IF f = "none"
       THEN /\ order_items' = [k \in {j \in DOMAIN order_items :
                                        order_items[j].order_id # order_id} |->
                                 order_items[k]]
            /\ orders' = DeleteById(orders, order_id)
            /\ ret' = BoolRet(order_id \in DOMAIN orders)
       ELSE /\ UNCHANGED <<orders, order_items>>
            /\ ret' = BoolRet(FALSE)
    /\ UNCHANGED <<clock, products, customers, seq, memvars, histvars>>

ProductOps(F) ==
    \/ \E p \in ProductInputs, f \in F \ {"items"} : AddProduct(p, f)
    \/ \E i \in ProductIds, q \in NewQuantities, f \in F \ {"items"} :
           UpdateProductQuantity(i, q, f)
    \/ \E i \in ProductIds, f \in F \ {"items"} : DeleteProduct(i, f)

CustomerOps(F) ==
    \/ \E e \in Emails, f \in F \ {"items"} : AddCustomer(e, f)
    \/ \E c \in CustomerIds, f \in F \ {"items"} : DeleteCustomer(c, f)
    \/ \E c \in CustomerIds, f \in F \ {"items", "commit"} : IncrementCustomerOrders(c, f)

OrderOps(F, cids) ==
    \/ \E c \in cids, its \in ItemInputs, f \in F : AddOrder(BuildOrder(c, its), f)
    \/ \E i \in OrderIds, s \in StatusInputs, f \in F \ {"items"} :
           UpdateOrderStatus(i, s, f)
    \/ \E i \in OrderIds, f \in F \ {"items"} : DeleteOrder(i, f)

\* Every repository operation.
Next == ProductOps(NoFault) \/ CustomerOps(NoFault) \/ OrderOps(NoFault, CustomerIds)
Spec == Init /\ [][Next]_vars

\* Customers and orders; no product is ever stored, so orders carry hand-built
\* Product objects.
NextCustomers == CustomerOps(NoFault) \/ OrderOps(NoFault, CustomerIds)
SpecCustomers == Init /\ [][NextCustomers]_vars

\* The same with storage whose statements and commits may raise
\* sqlite3.OperationalError.
NextCustomersFault == CustomerOps(Faults) \/ OrderOps(Faults, CustomerIds)
SpecCustomersFault == Init /\ [][NextCustomersFault]_vars

\* ------------------------------------------------- aggregation queries
\* A day passes.
Tick ==
    /\ clock < MaxDay
    /\ clock' = clock + 1
    /\ UNCHANGED <<dbvars, memvars, histvars, call, ret, raised>>

\* A query that, before answering, sets every customer's orders_count to the
\* number of that customer's stored orders.
Query_recounting(op, exception) ==
    /\ call' = [op |-> op]
    /\ raised' = exception
    /\ ret' = NoRet
    /\ customers' = [c \in DOMAIN customers |->
                       [customers[c] EXCEPT !.orders_count =
                            Cardinality({i \in DOMAIN orders : orders[i].customer_id = c})]]
    /\ UNCHANGED <<clock, products, orders, order_items, seq, memvars, histvars>>

\* A DataAnalyzer query: SELECTs through the repository's read operations and
\* arithmetic on what they return. exception is what the reads let out.
Query(op, exception) ==
    /\ call' = [op |-> op]
    /\ raised' = exception
    /\ ret' = NoRet
    /\ UNCHANGED <<clock, dbvars, memvars, histvars>>

GetSalesByDate ==
    Query("get_sales_by_date",
          get_sales_by_date(products, orders, order_items, clock).raised)

GetTopCustomers == Query("get_top_customers", "")

GetTopProducts ==
    Query("get_top_products", get_top_products(products, orders, order_items, 1).raised)

GetOrderStatusDistribution ==
    Query("get_order_status_distribution",
          get_order_status_distribution(products, orders, order_items).raised)

GetSummaryStatistics ==
    Query("get_summary_statistics",
          get_summary_statistics(products, customers, orders, order_items).raised)

Queries ==
    \/ GetSalesByDate
    \/ GetTopCustomers
    \/ GetTopProducts
    \/ GetOrderStatusDistribution
    \/ GetSummaryStatistics

ScenarioOrderIds == 1 .. ScenarioOrders

\* The orders of the scenario, their status changes and deletions, the passing
\* of days, and the queries.
NextReports ==
    \/ \E e \in Emails : AddCustomer(e, "none")
    \/ \E c \in CustomerIds : PlaceOrder(c)
    \/ \E i \in ScenarioOrderIds, st \in StatusInputs : UpdateOrderStatus(i, st, "none")
    \/ \E i \in ScenarioOrderIds : DeleteOrder(i, "none")
    \/ Tick
    \/ Queries
SpecReports == Init /\ [][NextReports]_vars

\* Customers and the orders of the ranking scenario.
NextRanking == CustomerOps(NoFault) \/ \E c \in CustomerIds : PlaceOrder(c)
SpecRanking == Init /\ [][NextRanking]_vars

\* Orders alone, placed for customers that are never stored, with storage whose
\* statements and commits may raise.
NextOrdersFault == OrderOps(Faults, CustomerIds)
SpecOrdersFault == Init /\ [][NextOrdersFault]_vars

\* Rows of the three entity tables coming and going; orders carry no items.
NextIds ==
    \/ \E p \in ProductInputs : AddProduct(p, "none")
    \/ \E i \in ProductIds : DeleteProduct(i, "none")
    \/ \E e \in Emails : AddCustomer(e, "none")
    \/ \E c \in CustomerIds : DeleteCustomer(c, "none")
    \/ \E c \in CustomerIds : AddOrder(BuildOrder(c, <<>>), "none")
    \/ \E i \in OrderIds : DeleteOrder(i, "none")
SpecIds == Init /\ [][NextIds]_vars

\* Products and orders; no customer is ever stored, every order is placed for
\* customer id 1.
NextCatalog == ProductOps(NoFault) \/ OrderOps(NoFault, {1})
SpecCatalog == Init /\ [][NextCatalog]_vars

\* ------------------------------------------------------------------ claims
\* The sum of price * quantity over a list of line items.
RECURSIVE SumOverItems(_)
SumOverItems(items) ==
    IF items = <<>> THEN 0
    ELSE Head(items).product.price * Head(items).quantity + SumOverItems(Tail(items))

\* C1: after any sequence of add_item and remove_item calls, failing ones
\* included, the order's total_price is the sum of price * quantity over its
\* current item list.
C1_TotalIsSumOfItems == order.total_price = SumOverItems(order.items)

\* An order that went through an add_item, a failed add_item and a remove_item
\* and still holds a line item.
C1_Witness ==
    /\ call.op = "Order.remove_item"
    /\ Len(order.items) > 0
    /\ order.total_price > 0

\* C2: each add_order that returns an order id raises the owning customer's
\* orders_count by exactly 1, a new customer row starts at 0, and nothing else
\* but a direct increment_customer_orders call changes a stored customer's
\* orders_count -- so the count is the number of orders placed for that row.
C2_CountIsOrdersPlaced ==
    [][ /\ \A c \in DOMAIN customers' \ DOMAIN customers :
               customers'[c].orders_count = 0
        /\ \A c \in DOMAIN customers \cap DOMAIN customers' :
               IF call'.op = "add_order" /\ ret'.int > 0
                  /\ call'.order.customer_id = c
               THEN customers'[c].orders_count = customers[c].orders_count + 1
               ELSE call'.op # "increment_customer_orders"
                    => customers'[c].orders_count = customers[c].orders_count
      ]_vars

\* The order_items rows of one order.
ItemRowsOf(items, order_id) == { k \in DOMAIN items : items[k].order_id = order_id }

\* C3: add_order is all-or-nothing: after it, either the header, every line
\* item and the +1 on the owning customer's orders_count are all stored, or
\* none of them is; a call that reports failure leaves nothing behind.
C3_AddOrderAllOrNothing ==
    [][ call'.op = "add_order" =>
          LET o == call'.order
              id == seq.orders + 1
              all == /\ id \in DOMAIN orders'
                     /\ Cardinality(ItemRowsOf(order_items', id)) = Len(o.items)
                     /\ o.customer_id \in DOMAIN customers
                          => customers'[o.customer_id].orders_count
                               = customers[o.customer_id].orders_count + 1
              none == /\ orders' = orders
                      /\ order_items' = order_items
                      /\ customers' = customers
          IN  /\ all \/ none
              /\ ret'.int = -1 => none
      ]_vars

\* The <<product id, quantity>> pairs of a list of line items.
Pairs(items) == [i \in 1 .. Len(items) |-> <<items[i].product.id, items[i].quantity>>]

\* C4: for an order whose items all reference stored products,
\* get_order(add_order(order)) returns the same product ids with the same
\* line-item quantities, so get_items_count() is unchanged by persistence.
C4_LineItemsRoundTrip ==
    ( /\ call.op = "add_order"
      /\ ret.int > 0
      /\ \A i \in 1 .. Len(call.order.items) :
             call.order.items[i].product.id \in DOMAIN products )
    => LET r == get_order(products, orders, order_items, ret.int)
       IN  /\ r.raised = ""
           /\ Len(r.orders) = 1
           /\ Pairs(r.orders[1].items) = Pairs(call.order.items)
           /\ get_items_count(r.orders[1].items) = get_items_count(call.order.items)

\* Every order of a list has a total_price equal to the sum over its items.
TotalsMatch(os) ==
    \A i \in 1 .. Len(os) : os[i].total_price = SumOverItems(os[i].items)

\* C5: every order returned by get_order, get_all_orders or
\* get_customer_orders has a total_price equal to the sum of price * quantity
\* over the item list it is returned with.
C5_ReturnedTotalIsSumOfReturnedItems ==
    /\ \A i \in OrderIds :
           TotalsMatch(get_order(products, orders, order_items, i).orders)
    /\ TotalsMatch(get_all_orders(products, orders, order_items).orders)
    /\ \A c \in CustomerIds :
           TotalsMatch(get_customer_orders(products, orders, order_items, c).orders)

\* C6: after delete_order(id) on an existing order no orders row has that id,
\* no order_items row has that order_id, and get_order(id) returns None.
C6_DeleteOrderCascades ==
    (call.op = "delete_order" /\ call.id # 0)
    => /\ call.id \notin DOMAIN orders
       /\ ItemRowsOf(order_items, call.id) = {}
       /\ get_order(products, orders, order_items, call.id)
            = [raised |-> "", orders |-> <<>>]

\* An order that was stored with line items has just been deleted.
C6_Witness ==
    /\ call.op = "delete_order"
    /\ call.id # 0
    /\ ret.bool
    /\ seq.order_items > 0

\* C7: the orders_count of a stored customer row never decreases from one
\* state to the next, and delete_order and update_order_status leave every
\* customer's orders_count unchanged.
C7_OrdersCountNeverDecreases ==
    [][ /\ \A c \in DOMAIN customers \cap DOMAIN customers' :
               customers'[c].orders_count >= customers[c].orders_count
        /\ call'.op \in {"delete_order", "update_order_status"}
               => customers' = customers
      ]_vars

\* An order of a customer whose orders_count is positive has just been deleted.
C7_Witness ==
    /\ call.op = "delete_order"
    /\ call.id # 0
    /\ call.owner \in DOMAIN customers
    /\ customers[call.owner].orders_count > 0

\* No two stored customers share an email.
UniqueEmails ==
    \A c, d \in DOMAIN customers :
        customers[c].email = customers[d].email => c = d

\* C8: add_customer with the email of a stored customer returns -1 without
\* raising and leaves the stored customers unchanged; no reachable state has
\* two stored customers with the same email.
C8_DuplicateEmailRejected ==
    /\ [][ (call'.op = "add_customer" /\ call'.email \in StoredEmails(customers))
           => (ret'.int = -1 /\ raised' = "" /\ customers' = customers) ]_vars
    /\ []UniqueEmails

\* add_customer has just been refused for an email that is in storage.
C8_Witness ==
    /\ call.op = "add_customer"
    /\ call.email \in StoredEmails(customers)
    /\ ret.int = -1

\* C9: once delete_customer has removed the customer holding an email, a later
\* add_customer with that email succeeds and creates a new row whose
\* orders_count is 0.
C9_EmailReusableAfterDelete ==
    [][ ( /\ call'.op = "add_customer"
          /\ call'.email \in freed
          /\ call'.email \notin StoredEmails(customers) )
        => /\ ret'.int > 0
           /\ ret'.int \notin DOMAIN customers
           /\ ret'.int \in DOMAIN customers'
           /\ customers'[ret'.int].email = call'.email
           /\ customers'[ret'.int].orders_count = 0
      ]_vars

\* A customer has just been created with the email of a deleted one.
C9_Witness ==
    /\ call.op = "add_customer"
    /\ call.email \in freed
    /\ ret.int > 0
    /\ customers[ret.int].email = call.email

\* C10: the value add_customer returns for a storage error other than a
\* duplicate email differs from the value it returns for a duplicate email.
C10_DuplicateDistinguishable ==
    (call.op = "add_customer" /\ call.error = "OperationalError")
    => ret.int # IntegrityErrorResult

\* C11: an update_quantity(delta) call fails exactly when the current quantity
\* plus delta is negative, a failing call leaves the quantity unchanged, a
\* succeeding one adds delta, and the quantity is always the initial quantity
\* plus the sum of the deltas of the calls that succeeded, hence never negative.
C11_QuantityIsInitialPlusApplied ==
    /\ [](self_product.quantity = applied.q0 + applied.sum /\ self_product.quantity >= 0)
    /\ [][ call'.op = "Product.update_quantity" =>
             /\ raised' = "ValueError" <=> self_product.quantity + call'.delta < 0
             /\ raised' \in {"", "ValueError"}
             /\ raised' # "" => self_product' = self_product
             /\ raised' = "" => self_product'.quantity = self_product.quantity + call'.delta
         ]_vars

\* A call has just failed on a product that earlier calls had changed.
C11_Witness ==
    /\ call.op = "Product.update_quantity"
    /\ raised = "ValueError"
    /\ applied.sum # 0
    /\ self_product.quantity > 0

\* C12: after any sequence of add_product, update_product_quantity (whatever
\* integer it is given) and delete_product calls, every stored product row has
\* a quantity of at least 0.
C12_StoredQuantityNonNegative ==
    \A i \in DOMAIN products : products[i].quantity >= 0

\* The status of every order of a list is one of the five recognised values.
StatusesValid(os) == \A i \in 1 .. Len(os) : os[i].status \in VALID_STATUSES

\* C13: the status of every order -- the in-memory one after any set_status
\* calls, and the one get_order returns after any add_order and
\* update_order_status calls -- is one of pending, processing, shipped,
\* delivered, cancelled; a set_status call with any other value raises and
\* leaves the status unchanged.
C13_StatusAlwaysValid ==
    /\ [](order.status \in VALID_STATUSES)
    /\ [](\A i \in OrderIds :
              StatusesValid(get_order(products, orders, order_items, i).orders))
    /\ [][ (call'.op = "Order.set_status" /\ call'.status \notin VALID_STATUSES)
           => (raised' = "ValueError" /\ order'.status = order.status) ]_vars

\* C14: add_item with a quantity of 0 or less raises ValueError and leaves the
\* order -- its item list, total_price and status -- exactly as it was.
C14_AddItemRejectsNonPositive ==
    [][ (call'.op = "Order.add_item" /\ call'.quantity <= 0)
        => /\ raised' = "ValueError"
           /\ order'.items = order.items
           /\ order'.total_price = order.total_price
           /\ order'.status = order.status
      ]_vars

\* add_item has just been refused on an order that holds items and whose
\* status was changed.
C14_Witness ==
    /\ call.op = "Order.add_item"
    /\ call.quantity <= 0
    /\ raised = "ValueError"
    /\ Len(order.items) > 0
    /\ order.status = "shipped"

\* The entries of a list of line items that do not reference a product id, in
\* their original order.
Others(items, product_id) ==
    LET Keep(it) == it.product.id # product_id
    IN  SelectSeq(items, Keep)

\* C15: after remove_item(pid) the item list is the previous list without any
\* entry for pid (every duplicate goes), the rest keeping their order and
\* quantities; when no entry references pid nothing is raised and the item
\* list and total_price are unchanged.
C15_RemoveItemDropsEveryEntry ==
    [][ call'.op = "Order.remove_item" =>
          /\ order'.items = Others(order.items, call'.product_id)
          /\ raised' = ""
          /\ (\A i \in 1 .. Len(order.items) :
                  order.items[i].product.id # call'.product_id)
               => (order'.items = order.items
                   /\ order'.total_price = order.total_price)
      ]_vars

\* remove_item has just dropped two entries of the same product.
C15_Witness ==
    /\ call.op = "Order.remove_item"
    /\ call.removed = 2

\* Every line item of every order of a list has a quantity of at least 1.
QuantitiesPositive(os) ==
    \A i \in 1 .. Len(os) : \A k \in 1 .. Len(os[i].items) : os[i].items[k].quantity >= 1

\* C16: every line item of every Order has a positive quantity, for the order
\* built in memory and for every order get_order returns in any reachable
\* storage state, a referenced product with stock 0 included.
C16_LineQuantitiesPositive ==
    /\ QuantitiesPositive(<<order>>)
    /\ \A i \in OrderIds :
           QuantitiesPositive(get_order(products, orders, order_items, i).orders)

\* C17: for a valid Product p, get_product(add_product(p)) returns a product
\* with the name, price, description and quantity of p and the id add_product
\* returned.
C17_ProductRoundTrip ==
    (call.op = "add_product" /\ call.product.valid /\ ret.int > 0)
    => LET got == get_product(products, ret.int)
       IN  /\ Len(got) = 1
           /\ got[1].valid
           /\ got[1].id = ret.int
           /\ got[1].name = call.product.name
           /\ got[1].price = call.product.price
           /\ got[1].description = call.product.description
           /\ got[1].quantity = call.product.quantity

\* A product with stock has just been stored under the second id handed out.
C17_Witness ==
    /\ call.op = "add_product"
    /\ ret.int = 2
    /\ call.product.quantity > 0
    /\ ret.int \in DOMAIN products

\* The numbers of rows asked of a top-N report.
TopN == 1 .. MaxCustomers + 1

\* The stored orders of a customer.
OrdersOf(customer_id) == { i \in DOMAIN orders : orders[i].customer_id = customer_id }

\* A DataFrame of get_top_customers is made of at most n rows, each the row of
\* a different stored customer, in non-increasing order of orders_count, and
\* no customer left out has a greater orders_count than one of its rows.
IsTopCustomers(df, n) ==
    LET stored == CustomersFrame(customers)
        In(row) == \E i \in 1 .. Len(df) : df[i] = row
    IN  /\ Len(df) <= n
        /\ \A i \in 1 .. Len(df) : \E k \in 1 .. Len(stored) : df[i] = stored[k]
        /\ \A i, j \in 1 .. Len(df) : i # j => df[i].email # df[j].email
        /\ \A i, j \in 1 .. Len(df) : i < j => df[i].orders >= df[j].orders
        /\ \A k \in 1 .. Len(stored) :
               ~In(stored[k]) => \A i \in 1 .. Len(df) : stored[k].orders <= df[i].orders

\* C18: get_top_customers(n) returns at most n rows of stored customers, in
\* non-increasing order of orders_count, leaving out no customer with a
\* strictly greater count than one it returns; with three stored orders, two
\* of customer 1 and one of customer 2, its first row is customer 1 with
\* count 2.
C18_TopCustomers ==
    /\ \A n \in TopN : \A df \in get_top_customers(customers, n) : IsTopCustomers(df, n)
    /\ ( /\ DOMAIN customers = {1, 2}
         /\ Cardinality(DOMAIN orders) = 3
         /\ Cardinality(OrdersOf(1)) = 2
         /\ Cardinality(OrdersOf(2)) = 1 )
       => \A df \in get_top_customers(customers, 1) :
              /\ Len(df) = 1
              /\ df[1].email = customers[1].email
              /\ df[1].orders = 2

\* The rows of a DataFrame in non-increasing order of a key, rows with equal
\* keys in their original order: the outcome of a stable descending sort.
StableDescending(rows, by) ==
    LET n == Len(rows)
        Before(a, b) == rows[a][by] > rows[b][by] \/ (rows[a][by] = rows[b][by] /\ a < b)
        q == CHOOSE q \in Permutations(1 .. n) :
                 \A i, j \in 1 .. n : i < j => Before(q[i], q[j])
    IN  [i \in 1 .. n |-> rows[q[i]]]

RECURSIVE SumQuantities(_, _)
SumQuantities(items, ks) ==
    IF ks = {} THEN 0
    ELSE LET k == CHOOSE x \in ks : TRUE
         IN  items[k].quantity + SumQuantities(items, ks \ {k})

\* The line-item quantity add_order persisted for a product, over the stored
\* orders.
PersistedQuantity(product_id) ==
    SumQuantities(order_items,
                  { k \in DOMAIN order_items :
                        /\ order_items[k].product_id = product_id
                        /\ order_items[k].order_id \in DOMAIN orders })

\* C20: get_top_products(n) reports for each product a quantity equal to the
\* sum of the line-item quantities add_order persisted for it over the stored
\* orders and a revenue equal to the sum of current price * line-item
\* quantity, in at most n rows ordered by that quantity, largest first.
C20_TopProducts ==
    LET all == get_all_orders(products, orders, order_items)
        sales == product_sales(AllItems(all.orders))
    IN  all.raised = "" =>
          /\ \A k \in 1 .. Len(sales) :
                 /\ sales[k].id \in DOMAIN products
                 /\ sales[k].quantity = PersistedQuantity(sales[k].id)
                 /\ sales[k].revenue
                      = products[sales[k].id].price * PersistedQuantity(sales[k].id)
          /\ \A n \in TopN :
                 \A df \in get_top_products(products, orders, order_items, n).frames :
                     /\ Len(df) <= n
                     /\ \A i \in 1 .. Len(df) :
                            \E k \in 1 .. Len(sales) : df[i] = ProductsFrame(sales)[k]
                     /\ \A i, j \in 1 .. Len(df) : i < j => df[i].quantity >= df[j].quantity

\* The stored orders created on a date.
CreatedOn(date) == { i \in DOMAIN orders : orders[i].created_at = date }

\* The sum of a function over a set of order ids.
RECURSIVE SumOverOrders(_, _)
SumOverOrders(F(_), ids) ==
    IF ids = {} THEN 0
    ELSE LET i == CHOOSE x \in ids : TRUE
         IN  F(i) + SumOverOrders(F, ids \ {i})

\* C21: get_sales_by_date returns one row per calendar date on which a stored
\* order was created -- the date it was persisted, whatever the date of the
\* query -- with the sum of total_price and of the items counts of the orders
\* created that date, dates ascending.
C21_SalesByCreationDate ==
    LET r == get_sales_by_date(products, orders, order_items, clock)
        Total(i) == orders[i].total_price
        Items(i) == get_items_count(get_order(products, orders, order_items, i).orders[1].items)
    IN  r.raised = "" =>
          /\ { r.rows[k].date : k \in 1 .. Len(r.rows) }
               = { orders[i].created_at : i \in DOMAIN orders }
          /\ \A j, k \in 1 .. Len(r.rows) : j < k => r.rows[j].date < r.rows[k].date
          /\ \A k \in 1 .. Len(r.rows) :
                 /\ r.rows[k].total = SumOverOrders(Total, CreatedOn(r.rows[k].date))
                 /\ r.rows[k].items = SumOverOrders(Items, CreatedOn(r.rows[k].date))

\* The stored orders that hold a status.
WithStatus(status) == { i \in DOMAIN orders : orders[i].status = status }

\* C22: get_order_status_distribution returns one row for each status held by
\* at least one stored order and none for any other status; each count is the
\* number of stored orders with that status, so every count is at least 1 and
\* the counts add up to the number of stored orders.
C22_StatusDistribution ==
    LET r == get_order_status_distribution(products, orders, order_items)
        Count(k) == r.rows[k].count
    IN  r.raised = "" =>
          /\ { r.rows[k].status : k \in 1 .. Len(r.rows) }
               = { orders[i].status : i \in DOMAIN orders }
          /\ \A j, k \in 1 .. Len(r.rows) : r.rows[j].status = r.rows[k].status => j = k
          /\ \A k \in 1 .. Len(r.rows) :
                 /\ r.rows[k].count = Cardinality(WithStatus(r.rows[k].status))
                 /\ r.rows[k].count >= 1
          /\ SumOverOrders(Count, 1 .. Len(r.rows)) = Cardinality(DOMAIN orders)

\* Three orders are stored, two of them with the same status, and the
\* distribution has just been asked for.
C22_Witness ==
    /\ call.op = "get_order_status_distribution"
    /\ raised = ""
    /\ Cardinality(DOMAIN orders) = 3
    /\ Cardinality({ orders[i].status : i \in DOMAIN orders }) = 2

\* C23: with no order stored get_summary_statistics returns without raising,
\* with total_orders, total_revenue, avg_order_value and avg_items_per_order
\* all 0; with orders stored, total_orders is their number, total_revenue the
\* sum of their total_price and total_items_sold the sum of their items counts.
C23_SummaryStatistics ==
    LET r == get_summary_statistics(products, customers, orders, order_items)
        all == get_all_orders(products, orders, order_items)
        Total(i) == orders[i].total_price
    IN  /\ orders = EmptyTable =>
              /\ r.raised = ""
              /\ r.stats[1].total_orders = 0
              /\ r.stats[1].total_revenue = 0
              /\ r.stats[1].avg_order_value.num = 0
              /\ r.stats[1].avg_items_per_order.num = 0
        /\ (orders # EmptyTable /\ r.raised = "") =>
              /\ r.stats[1].total_orders = Cardinality(DOMAIN orders)
              /\ r.stats[1].total_revenue = SumOverOrders(Total, DOMAIN orders)
              /\ r.stats[1].total_items_sold = SumItemsCounts(all.orders)

\* The operations of the aggregation engine.
QueryOps ==
    {"get_sales_by_date", "get_top_customers", "get_top_products",
     "get_order_status_distribution", "get_summary_statistics"}

\* C24: no aggregation query changes storage: the products, customers, orders
\* and order_items rows (and the id counters) are the same after the call as
\* before it.
C24_QueriesLeaveStorageAlone ==
    [][ call'.op \in QueryOps =>
          /\ products' = products
          /\ customers' = customers
          /\ orders' = orders
          /\ order_items' = order_items
          /\ seq' = seq
      ]_vars

\* A query has just run on a database holding a customer and two of that
\* customer's orders with their line items.
C24_Witness ==
    /\ call.op \in QueryOps
    /\ \E c \in DOMAIN customers : Cardinality(OrdersOf(c)) = 2
    /\ order_items # EmptyTable

\* C25: in every reachable storage state each repository operation returns to
\* its caller and never raises: the mutating operations report failure by
\* their return value, and get_product, get_all_products, get_order and
\* get_all_orders return normally for every row the mutations can have stored.
C25_RepositoryNeverRaises ==
    /\ raised = ""
    /\ \A i \in ProductIds :
           get_product(products, i) # <<>> => get_product(products, i)[1].valid
    /\ get_all_products(products).raised = ""
    /\ \A i \in OrderIds : get_order(products, orders, order_items, i).raised = ""
    /\ get_all_orders(products, orders, order_items).raised = ""
    /\ \A c \in CustomerIds :
           get_customer_orders(products, orders, order_items, c).raised = ""

\* The connections open after the first n events of a log.
OpenAfter(log, n) ==
    Cardinality({ k \in 1 .. n : log[k].ev = "open" })
    - Cardinality({ k \in 1 .. n : log[k].ev = "close" })

\* Connection j holds an uncommitted write just before event n of a log.
Uncommitted(log, j, n) ==
    \E k \in 1 .. n - 1 :
        /\ log[k] = Event("write", j)
        /\ \A m \in k + 1 .. n - 1 : log[m] \notin {Event("commit", j), Event("close", j)}

\* A log never has two connections open, and never writes on one connection
\* while another holds an uncommitted write.
OneConnectionAtATime(log) ==
    /\ \A n \in 1 .. Len(log) : OpenAfter(log, n) <= 1
    /\ \A n \in 1 .. Len(log) :
           log[n].ev = "write" => \A j \in 1 .. 2 : j # log[n].conn => ~Uncommitted(log, j, n)

\* C26: no repository operation has more than one storage connection open at
\* a time, directly or through a nested repository call, and none attempts a
\* write on one connection while another of its connections holds an
\* uncommitted write.
C26_OneConnectionPerOperation ==
    /\ OneConnectionAtATime(Connections(call))
    /\ OneConnectionAtATime(get_all_orders_connections(DOMAIN orders))
    /\ \A c \in CustomerIds : OneConnectionAtATime(get_all_orders_connections(OrdersOf(c)))

\* C27: the customer_id of every stored order is the id of a stored customer:
\* add_order for a customer id not in storage creates no order, and
\* delete_customer never removes a customer whose orders stay behind.
C27_OrdersReferenceStoredCustomers ==
    /\ [](\A i \in DOMAIN orders : orders[i].customer_id \in DOMAIN customers)
    /\ [][ (call'.op = "add_order" /\ call'.order.customer_id \notin DOMAIN customers)
           => orders' = orders ]_vars
    /\ [][ (call'.op = "delete_customer" /\ call'.id # 0 /\ OrdersOf(call'.id) # {})
           => call'.id \in DOMAIN customers' ]_vars

\* C28: the product_id of every stored order_items row is the id of a stored
\* product, so get_order returns one line item for each line item persisted
\* with the order.
C28_ItemsReferenceStoredProducts ==
    /\ \A k \in DOMAIN order_items : order_items[k].product_id \in DOMAIN products
    /\ \A i \in DOMAIN orders :
           LET r == get_order(products, orders, order_items, i)
           IN  r.raised = ""
               => Len(r.orders[1].items) = Cardinality(ItemRowsOf(order_items, i))

\* C29: every stored order_items row has the order_id of a stored order; line
\* items appear only in an add_order that stores their header with them and
\* disappear only in a delete_order that removes it with them.
C29_NoOrphanLineItems ==
    /\ [](\A k \in DOMAIN order_items : order_items[k].order_id \in DOMAIN orders)
    /\ [][ order_items' # order_items =>
             \/ /\ call'.op = "add_order"
                /\ ret'.int \in DOMAIN orders' \ DOMAIN orders
                /\ \A k \in DOMAIN order_items' \ DOMAIN order_items :
                       order_items'[k].order_id = ret'.int
             \/ /\ call'.op = "delete_order"
                /\ call'.id \in DOMAIN orders \ DOMAIN orders'
         ]_vars

\* An add_order with line items has just failed at its commit.
C29_Witness ==
    /\ call.op = "add_order"
    /\ call.fault = "commit"
    /\ Len(call.order.items) = 2
    /\ ret.int = -1
    /\ order_items = EmptyTable

\* The table an add_ operation inserts into, and the tables by name.
TableOf(op) ==
    IF op = "add_product" THEN "products"
    ELSE IF op = "add_customer" THEN "customers" ELSE "orders"
Tables == [products |-> products, customers |-> customers, orders |-> orders]

\* C30: the ids returned by successful add_product, add_customer and add_order
\* calls are, per entity type, strictly increasing over the whole history and
\* never reused, even after the row with the largest id was deleted; so a
\* stored order of a deleted customer is never attributed to a customer
\* created later.
C30_IdsNeverReused ==
    /\ [](\A t \in DOMAIN Tables : \A id \in DOMAIN Tables[t] : id <= seq[t])
    /\ [][ \A t \in DOMAIN Tables : seq'[t] >= seq[t] ]_vars
    /\ [][ (call'.op \in {"add_product", "add_customer", "add_order"} /\ ret'.int > 0)
           => /\ ret'.int > seq[TableOf(call'.op)]
              /\ ret'.int = seq'[TableOf(call'.op)]
              /\ call'.op = "add_customer"
                   => \A i \in DOMAIN orders :
                          orders[i].customer_id <= seq.customers
                              => orders'[i].customer_id # ret'.int
         ]_vars

\* A customer has just been created after the customer with the largest id was
\* deleted, while an order of the deleted customer is still stored.
C30_Witness ==
    /\ call.op = "add_customer"
    /\ ret.int = 2
    /\ DOMAIN customers = {2}
    /\ \E i \in DOMAIN orders : orders[i].customer_id = 1

====
